---- MODULE Spec2Model ----
(***************************************************************************)
(* Kobo metadata plugin: the query-and-scrape pipeline.                    *)
(*                                                                         *)
(* Two implementations live in the repository and both are modelled:       *)
(*   KoboMetadataImpl (kobo_metadata.py)  - session with challenge retry,  *)
(*       paginator with a page ceiling, identify / get_cover_url;          *)
(*   KoboMetadata     (__init__.py)       - the plugin class with its own  *)
(*       identify, _perform_query, _lookup_metadata and download_cover.    *)
(*                                                                         *)
(* Text is a sequence of atoms (characters, or opaque chunks where the     *)
(* code never looks inside).  An optional value is <<>> (None) or <<v>>.   *)
(***************************************************************************)
EXTENDS Integers, Sequences, FiniteSets, TLC

VARIABLES
    op,            \* entry point in progress
    pc,            \* position inside it
    identifiers,   \* argument: [kobo, isbn], each optional
    query,         \* _generate_query(title, authors): the free-text query
    prefs,         \* the configuration mapping
    stage,         \* which query of the entry point is running: "isbn" / "text"
    session,       \* KoboMetadataImpl.session: <<>> or <<id>>
    url,           \* argument of the pending or running _get_webpage call
    fetch_pc,      \* _get_webpage of KoboMetadataImpl: "none", "get" (in its loop), "ret" (returned)
    attempts,      \* _get_webpage: attempts
    requests,      \* number of session.get calls made by the running _get_webpage
    resp,          \* _get_webpage: resp (last response), optional
    page,          \* page, is_search of the running _perform_query / _fetch_metadata /
    is_search,     \*   get_cover_url: the result of its last _get_webpage call
    page_num,      \* _perform_query: page_num (1 while the first page is requested)
    query_results, \* _perform_query: results (before truncation)
    query_ret,     \* value _perform_query returns
    urls,          \* identify / get_cover_url: urls
    pos,           \* position in urls of the url the for loop is at (1-based)
    index,         \* _fetch_metadata / identify: index
    results,       \* _fetch_metadata: results
    metadata,      \* result of the last _parse_book_page / _lookup_metadata, optional
    result_queue,  \* the host's result sink
    cache,         \* the host's identifier -> cover URL cache
    log,           \* kinds of messages written to the host's logger by the last step, and
                   \*   by the _get_webpage call whose result the step took
    raised,        \* exception that left the entry point ("" when none)
    retval,        \* value returned by get_cover_url, optional
    res_queue,     \* download_cover: res_queue, the queue handed to its identify
    dc_cover_url,  \* download_cover: cover_url, optional
    thread_pc,     \* per host thread: its position inside _get_session
    thread_session \* per host thread: the session its last _get_session returned, optional

vars == <<op, pc, identifiers, query, prefs, stage, session, url, fetch_pc, attempts, requests,
          resp, page, is_search, page_num, query_results, query_ret, urls, pos,
          index, results, metadata, result_queue, cache, log, raised, retval,
          res_queue, dc_cover_url, thread_pc, thread_session>>

None == <<>>
Some(x) == <<x>>

\* ------------------------------------------------------------------ bounds
MaxMatches == 2      \* largest num_matches preference explored
MaxResultPages == 5  \* results pages the storefront has for a query
NumThreads == 2      \* host threads that call into one KoboMetadataImpl at the same time
MaxLinks == 3        \* most links of either markup on a results page given to _parse_search_page

\* ------------------------------------------------------- program constants
MaxAttempts == 15
max_page_num == 4

\* -------------------------------------------------------------------- text
Range(s) == {s[i] : i \in DOMAIN s}

\* the capital letters a TLA+ string can hold (A-Z and those of Latin-1) and what
\* str.lower makes of each
Upper == <<"A", "B", "C", "D", "E", "F", "G", "H", "I", "J", "K", "L", "M", "N", "O",
          "P", "Q", "R", "S", "T", "U", "V", "W", "X", "Y", "Z", "À", "Á", "Â", "Ã",
          "Ä", "Å", "Æ", "Ç", "È", "É", "Ê", "Ë", "Ì", "Í", "Î", "Ï", "Ð", "Ñ", "Ò",
          "Ó", "Ô", "Õ", "Ö", "Ø", "Ù", "Ú", "Û", "Ü", "Ý", "Þ">>
LowerLetters == <<"a", "b", "c", "d", "e", "f", "g", "h", "i", "j", "k", "l", "m", "n",
                 "o", "p", "q", "r", "s", "t", "u", "v", "w", "x", "y", "z", "à", "á",
                 "â", "ã", "ä", "å", "æ", "ç", "è", "é", "ê", "ë", "ì", "í", "î", "ï",
                 "ð", "ñ", "ò", "ó", "ô", "õ", "ö", "ø", "ù", "ú", "û", "ü", "ý", "þ">>

\* str.lower, one character
LowerChar(c) ==
    IF \E i \in DOMAIN Upper : Upper[i] = c
    THEN LowerLetters[CHOOSE i \in DOMAIN Upper : Upper[i] = c]
    ELSE c

\* str.lower
Lower(s) == [i \in DOMAIN s |-> LowerChar(s[i])]

\* string.punctuation (all of it but the backquote, which no TLA+ string can hold)
Punctuation == {"!", "\"", "#", "$", "%", "&", "'", "(", ")", "*", "+", ",", "-", ".",
                "/", ":", ";", "<", "=", ">", "?", "@", "[", "\\", "]", "^", "_",
                "{", "|", "}", "~"}

\* characters str.strip() removes, of those a TLA+ string can hold: tab, line feed,
\* vertical tab, form feed, carriage return, the separators 1C to 1F, the space, the
\* next-line character 85 and the no-break space A0
Whitespace == {"\t", "\n", "", "\f", "\r", "", "", "", "", " ", "", " "}

\* s.translate(str.maketrans("", "", chars))
RemoveChars(s, chars) == SelectSeq(s, LAMBDA c : c \notin chars)

RECURSIVE LStrip(_, _)
\* s.lstrip(chars)
LStrip(s, chars) ==
    IF s # <<>> /\ Head(s) \in chars THEN LStrip(Tail(s), chars) ELSE s

RECURSIVE RStrip(_, _)
RStrip(s, chars) ==
    IF s # <<>> /\ s[Len(s)] \in chars THEN RStrip(SubSeq(s, 1, Len(s) - 1), chars) ELSE s

\* s.strip()
Strip(s) == RStrip(LStrip(s, Whitespace), Whitespace)

RECURSIVE SplitFrom(_, _, _, _)
SplitFrom(s, sep, cur, out) ==
    IF s = <<>> THEN Append(out, cur)
    ELSE IF Head(s) = sep THEN SplitFrom(Tail(s), sep, <<>>, Append(out, cur))
    ELSE SplitFrom(Tail(s), sep, Append(cur, Head(s)), out)

\* s.split(sep) for a one-character separator: empty pieces are kept
Split(s, sep) == SplitFrom(s, sep, <<>>, <<>>)

StartsWith(s, p) == Len(s) >= Len(p) /\ SubSeq(s, 1, Len(p)) = p

RECURSIVE Replace(_, _, _)
\* s.replace(old, new), old non-empty: leftmost non-overlapping occurrences
Replace(s, old, new) ==
    IF s = <<>> THEN <<>>
    ELSE IF StartsWith(s, old) THEN new \o Replace(SubSeq(s, Len(old) + 1, Len(s)), old, new)
    ELSE <<Head(s)>> \o Replace(Tail(s), old, new)

\* old in s
Contains(s, old) == \E i \in 1..(Len(s) - Len(old) + 1) : SubSeq(s, i, i + Len(old) - 1) = old

RECURSIVE Join(_, _)
\* sep.join(parts)
Join(parts, sep) ==
    IF parts = <<>> THEN <<>>
    ELSE IF Len(parts) = 1 THEN parts[1]
    ELSE parts[1] \o sep \o Join(Tail(parts), sep)

\* ------------------------------------------------------------------- pages
\* A parsed document, as the XPath queries of the code see it.
ChallengeMarkers == {"form.challenge-form", "form#challenge-form", "span#challenge-error-text"}

BlankPage ==
    [children          |-> FALSE,   \* len(page) != 0: the root element has child elements
     markers           |-> {},      \* challenge elements present
     search_widget     |-> FALSE,   \* //div[@data-testid='search-result-widget']
     title_links       |-> <<>>,    \* href of //a[@data-testid='title']
     h2_links          |-> <<>>,    \* href of //h2[@class='title product-field']/a
     results_display   |-> FALSE,   \* //div[@class='search-results-display kobo-gizmo']
     title_elements    |-> <<>>,    \* text of //h1[@class='title product-field']
     authors_elements  |-> <<>>,    \* text of //span[@class='visible-contributors']/a
     series_elements   |-> <<>>,    \* //span[@class='series product-field']: [name, prefix]
     details           |-> <<>>,    \* //div[@class='bookitem-secondary-metadata']/ul/li: [text, span]
     tags_elements     |-> <<>>,    \* content of //ul[@class='category-rankings']/meta[@property='genre']
     synopsis_elements |-> <<>>,    \* //div[@class='synopsis-description']
     cover_elements    |-> <<>>]    \* src of //img[contains(@class, 'cover-image')]

\* a document whose root has child elements, none of them one the code looks for
EmptyPage == [BlankPage EXCEPT !.children = TRUE]

\* ------------------------------------------------------------ host services
\* calibre's check_isbn: the identifier when it is a well-formed ISBN, else None
ValidIsbns == {<<"9781761108105">>}
check_isbn(isbn) == IF isbn # None /\ isbn[1] \in ValidIsbns THEN isbn ELSE None

\* calibre's cap_author_token: a name particle in lower case, initials such as "j.k."
\* as "J. K.", any other token capitalised, with the letter after Mc or Mac and the
\* letter after the first "-" and after the first "'" in upper case
cap_author_token(token) ==
    LET UpperChar(c) ==
            IF \E i \in DOMAIN LowerLetters : LowerLetters[i] = c
            THEN Upper[CHOOSE i \in DOMAIN LowerLetters : LowerLetters[i] = c]
            ELSE c
        capitalize(t) == [i \in DOMAIN t |-> IF i = 1 THEN UpperChar(t[i]) ELSE LowerChar(t[i])]
        UpperAt(t, i) == [t EXCEPT ![i] = UpperChar(t[i])]
        lt == Lower(token)
        Particles == {<<"v", "o", "n">>, <<"d", "e">>, <<"e", "l">>, <<"v", "a", "n">>,
                      <<"l", "e">>}
        \* re.match(r"([^\d\W]\.){2,}$", lt)
        initials ==
            /\ Len(lt) >= 4 /\ Len(lt) % 2 = 0
            /\ \A i \in DOMAIN lt :
                  IF i % 2 = 0 THEN lt[i] = "."
                  ELSE lt[i] = "_" \/ \E k \in DOMAIN LowerLetters : LowerLetters[k] = lt[i]
        scots(pre) ==
            /\ StartsWith(lt, pre) /\ Len(token) > Len(pre)
            /\ (token[Len(pre) + 1] = UpperChar(token[Len(pre) + 1]) \/ lt = token)
        scots_name == IF scots(<<"m", "c">>) THEN 2 ELSE IF scots(<<"m", "a", "c">>) THEN 3 ELSE 0
        named == IF scots_name > 0 THEN UpperAt(capitalize(token), scots_name + 1)
                 ELSE capitalize(token)
        Find(t, x) ==
            IF \E i \in DOMAIN t : t[i] = x
            THEN CHOOSE i \in DOMAIN t : t[i] = x /\ \A j \in 1..(i - 1) : t[j] # x
            ELSE 0
        after_mark(t, x) ==
            IF Find(t, x) > 0 /\ Len(t) > Find(t, x) + 1 THEN UpperAt(t, Find(t, x) + 1) ELSE t
    IN  IF lt \in Particles THEN lt
        ELSE IF initials
        THEN Strip(Join([i \in DOMAIN Split(token, ".") |-> capitalize(Split(token, ".")[i])],
                        <<".", " ">>))
        ELSE after_mark(after_mark(named, "-"), "'")

\* calibre's fixauthors: one name for each contributor text, made of its words (the
\* runs between white space), each through cap_author_token, with one space between
fixauthors(authors) ==
    [i \in DOMAIN authors |->
        LET spaced == [k \in DOMAIN authors[i] |->
                          IF authors[i][k] \in Whitespace THEN " " ELSE authors[i][k]]
            words == SelectSeq(Split(spaced, " "), LAMBDA w : w # <<>>)
        IN  Join([k \in DOMAIN words |-> cap_author_token(words[k])], <<" ">>)]

\* calibre's parse_only_date: a date value made from the text
parse_only_date(text) == <<"date", Strip(text)>>

\* tweaks["maximum_cover_size"]
maximum_cover_size == <<"1650", "2200">>

\* Source.cache_identifier_to_cover_url / cached_identifier_to_cover_url:
\* the cache is a set of <<identifier, url>> pairs, one per identifier
cache_identifier_to_cover_url(c, id, cover_url) ==
    {p \in c : p[1] # id} \cup {<<id, cover_url>>}

cached_identifier_to_cover_url(c, id) ==
    IF \E p \in c : p[1] = id THEN Some((CHOOSE p \in c : p[1] = id)[2]) ELSE None

\* ---------------------------------------------------------- blacklist filter
\* the words of a comma separated preference, stripped and lowercased
BlacklistEntries(pref) == {Lower(Strip(x)) : x \in Range(Split(pref, ","))}

\* _check_title_blacklist: None, or the set of blacklisted words in the title
check_title_blacklist_no_lower(title, p) ==
    IF p.title_blacklist = <<>> THEN None
    ELSE Some(BlacklistEntries(p.title_blacklist)
              \cap Range(Split(RemoveChars(title, Punctuation), " ")))

check_title_blacklist(title, p) ==
    IF p.title_blacklist = <<>> THEN None
    ELSE LET blacklisted_words == BlacklistEntries(p.title_blacklist)
             title_str == RemoveChars(title, Punctuation)
         IN  Some(blacklisted_words \cap Range(Split(Lower(title_str), " ")))

\* _check_tag_blacklist: None, or the set of blacklisted tags among tags
check_tag_blacklist(tags, p) ==
    IF p.tag_blacklist = <<>> THEN None
    ELSE LET blacklisted_tags == BlacklistEntries(p.tag_blacklist)
         IN  Some(blacklisted_tags \cap {Lower(x) : x \in tags})

\* Python truth of an optional set
Truthy(opt) == opt # None /\ opt[1] # {}

\* ---------------------------------------------------------------- page parser
\* calibre's Metadata(title, authors): every other field unset
Metadata(title, authors) ==
    [title |-> title, authors |-> authors, series |-> None, series_index |-> None,
     publisher |-> None, pubdate |-> None, isbn |-> None, language |-> None,
     tags |-> {}, comments |-> None, source_relevance |-> None]

\* re.match("Book (.*) - ", text): the group, greedy, or None; the group holds no
\* line feed, which "." does not match
BookPrefix == <<"B", "o", "o", "k", " ">>
BookSuffix == <<" ", "-", " ">>
series_index_match(text) ==
    LET ends == {j \in (Len(BookPrefix) + 1)..(Len(text) - Len(BookSuffix) + 1) :
                    /\ SubSeq(text, j, j + Len(BookSuffix) - 1) = BookSuffix
                    /\ \A k \in (Len(BookPrefix) + 1)..(j - 1) : text[k] # "\n"}
    IN  IF StartsWith(text, BookPrefix) /\ ends # {}
        THEN Some(SubSeq(text, Len(BookPrefix) + 1,
                         (CHOOSE j \in ends : \A k \in ends : k <= j) - 1))
        ELSE None

\* element.text: None for an element without text of its own, which a page holds as the
\* empty text
element_text(text) == IF text = <<>> THEN None ELSE Some(text)

\* lines 247-250: the series name from the name elements of the container
parse_series_name(md, name) ==
    IF name # <<>> THEN [md EXCEPT !.series = element_text(name[1])] ELSE md

\* lines 254-257: the match, if any, sets the index
set_series_index(md, match) ==
    IF match # None THEN [md EXCEPT !.series_index = match] ELSE md

\* lines 252-257: the series index from the index elements of the container;
\* [raised, md].  re.match raises on the text of an index element that has none
parse_series_index(md, prefix) ==
    IF prefix = <<>> THEN [raised |-> "", md |-> md]
    ELSE IF element_text(prefix[1]) = None THEN [raised |-> "TypeError", md |-> md]
    ELSE [raised |-> "", md |-> set_series_index(md, series_index_match(prefix[1]))]

\* lines 242-257: series name and index from the last series container; [raised, md]
parse_series(md, series_elements) ==
    IF series_elements = <<>> THEN [raised |-> "", md |-> md]
    ELSE parse_series_index(
             parse_series_name(md, series_elements[Len(series_elements)].name),
             series_elements[Len(series_elements)].prefix)

RECURSIVE parse_details(_, _, _)
\* lines 263-273: the labelled entries after the publisher; [raised, md].
\* id_labels: the labels that set the identifier
parse_details(md, items, id_labels) ==
    IF items = <<>> THEN [raised |-> "", md |-> md]
    ELSE LET x == Head(items)
             descriptor == Strip(x.text)
             labelled == descriptor \in {<<"Release Date:">>, <<"Language:">>} \cup id_labels
         IN  IF element_text(x.text) = None
             THEN \* line 264: x.text.strip() on None
                  [raised |-> "AttributeError", md |-> md]
             ELSE IF labelled /\ x.span = <<>> THEN [raised |-> "IndexError", md |-> md]
             ELSE IF descriptor = <<"Release Date:">>
                  THEN parse_details([md EXCEPT !.pubdate = Some(parse_only_date(x.span[1]))],
                                     Tail(items), id_labels)
             ELSE IF descriptor \in id_labels
                  THEN parse_details([md EXCEPT !.isbn = element_text(x.span[1])], Tail(items),
                                     id_labels)
             ELSE IF descriptor = <<"Language:">>
                  THEN parse_details([md EXCEPT !.language = element_text(x.span[1])],
                                     Tail(items), id_labels)
             ELSE parse_details(md, Tail(items), id_labels)

\* lines 276-284: tags and synopsis
parse_tags_and_synopsis(pg, md) ==
    [md EXCEPT
        !.tags = IF pg.tags_elements = <<>> THEN @
                 ELSE {Replace(x, <<",", " ">>, <<" ">>) : x \in Range(pg.tags_elements)},
        !.comments = IF pg.synopsis_elements = <<>> THEN @
                     ELSE Some(pg.synopsis_elements[1])]

\* lines 259-273: publisher and the labelled entries; [raised, md]
parse_book_details(pg, md, id_labels) ==
    IF pg.details = <<>> THEN [raised |-> "", md |-> md]
    ELSE IF element_text(pg.details[1].text) = None
    THEN \* line 261: book_details_elements[0].text.strip() on None
         [raised |-> "AttributeError", md |-> md]
    ELSE parse_details([md EXCEPT !.publisher = Some(Strip(pg.details[1].text))],
                       Tail(pg.details), id_labels)

\* what the parse gives after a step that may have raised: the failure, or the rest
parse_failed(exc) == [raised |-> exc, title |-> <<>>, md |-> Metadata(<<>>, <<>>)]

\* lines 259-284 after the details
parse_after_details(pg, title, det) ==
    IF det.raised # "" THEN parse_failed(det.raised)
    ELSE [raised |-> "", title |-> title, md |-> parse_tags_and_synopsis(pg, det.md)]

\* lines 259-284 after the series
parse_after_series(pg, title, ser, id_labels) ==
    IF ser.raised # "" THEN parse_failed(ser.raised)
    ELSE parse_after_details(pg, title, parse_book_details(pg, ser.md, id_labels))

\* lines 236-284 after the title
parse_after_title(pg, title, id_labels) ==
    IF \E i \in DOMAIN pg.authors_elements : element_text(pg.authors_elements[i]) = None
    THEN \* line 237: fixauthors splits a text that is None
         parse_failed("AttributeError")
    ELSE parse_after_series(pg, title,
                            parse_series(Metadata(title, fixauthors(pg.authors_elements)),
                                         pg.series_elements),
                            id_labels)

\* lines 232-284 (and __init__.py 305-357): title to synopsis; [raised, title, md]
parse_fields(pg, id_labels) ==
    IF pg.title_elements = <<>> THEN parse_failed("IndexError")
    ELSE IF element_text(pg.title_elements[1]) = None
    THEN \* line 233: title_elements[0].text.strip() on None
         parse_failed("AttributeError")
    ELSE parse_after_title(pg, Strip(pg.title_elements[1]), id_labels)

\* lines 306-315 (and __init__.py 362-371): the cover address made from the src
derive_cover_url(src, p) ==
    LET cover_url == <<"https:">> \o src
    IN  IF p.resize_cover
        THEN Replace(cover_url, <<"353/569/90">>,
                     <<maximum_cover_size[1], "/", maximum_cover_size[2], "/100">>)
        ELSE Replace(cover_url, <<"353/569/90", "/False/">>, <<>>)

\* lines 290-300 (and __init__.py 375-385): None for a blacklisted record
blacklist_filter(title, md, p) ==
    IF Truthy(check_title_blacklist(title, p)) THEN None
    ELSE IF Truthy(check_tag_blacklist(md.tags, p)) THEN None
    ELSE Some(md)

\* _parse_book_page_for_cover: [raised, cover_url]
parse_book_page_for_cover(pg, p) ==
    IF pg.cover_elements = <<>>
    THEN \* cover_url is read at line 317 without ever having been assigned
         [raised |-> "UnboundLocalError", cover_url |-> <<>>]
    ELSE [raised |-> "", cover_url |-> derive_cover_url(pg.cover_elements[1], p)]

\* lines 286-300 (and __init__.py 372-385): the cache the parse leaves, where c is the
\* cache before it, c1 the cache after the write at line 288 and md what the blacklist
\* checks, which come after the write, let through
cache_after_filter(c, c1, md) == IF md = None THEN c ELSE c1
cache_after_parse(c, c1, md) == c1

\* _parse_book_page: [raised, metadata (optional), cache]
parse_book_page(pg, p, c) ==
    LET f == parse_fields(pg, {<<"ISBN:">>, <<"Book ID:">>})
        cover == parse_book_page_for_cover(pg, p)
        c1 == IF cover.cover_url # <<>>
              THEN cache_identifier_to_cover_url(c, f.md.isbn, cover.cover_url) ELSE c
    IN  IF f.raised # "" THEN [raised |-> f.raised, metadata |-> None, cache |-> c]
        ELSE IF cover.raised # "" THEN [raised |-> cover.raised, metadata |-> None, cache |-> c]
        ELSE [raised |-> "",
              metadata |-> blacklist_filter(f.title, f.md, p),
              cache |-> cache_after_parse(c, c1, blacklist_filter(f.title, f.md, p))]

\* KoboMetadata._lookup_metadata, lines 305-385, on a product page:
\* [raised, metadata (optional), cache]
lookup_metadata_parse(pg, p, c) ==
    LET f == parse_fields(pg, {<<"ISBN:">>})
        c1 == IF pg.cover_elements # <<>>
              THEN cache_identifier_to_cover_url(c, f.md.isbn,
                                                 derive_cover_url(pg.cover_elements[1], p))
              ELSE c
    IN  IF f.raised # "" THEN [raised |-> f.raised, metadata |-> None, cache |-> c]
        ELSE [raised |-> "",
              metadata |-> blacklist_filter(f.title, f.md, p),
              cache |-> cache_after_parse(c, c1, blacklist_filter(f.title, f.md, p))]

\* ---------------------------------------------------------------- query builder
BASE_URL == "https://www.kobo.com/"
SearchMarker == <<"/search?">>

\* urlencode of a text value (quote_plus over UTF-8): ASCII letters, digits and "_.-~"
\* stay, a space becomes "+", every other character becomes the %XX of its bytes.
\* QuotedChars: the characters that are escaped, of those a TLA+ string can hold;
\* Escapes: the escape of each
QuotedChars == <<"", "", "", "", "", "", "", "", "\t", "\n", "", "\f", "\r",
                "", "", "", "", "", "", "", "", "", "", "", "", "", "",
                "", "", "", "", "!", "\"", "#", "$", "%", "&", "'", "(", ")", "*",
                "+", ",", "/", ":", ";", "<", "=", ">", "?", "@", "[", "\\", "]", "^",
                "{", "|", "}", "", "", "", "", "", "", "", "", "", "", "",
                "", "", "", "", "", "", "", "", "", "", "", "", "", "",
                "", "", "", "", "", "", "", "", " ", "¡", "¢", "£", "¤", "¥",
                "¦", "§", "¨", "©", "ª", "«", "¬", "­", "®", "¯", "°", "±", "²", "³",
                "´", "µ", "¶", "·", "¸", "¹", "º", "»", "¼", "½", "¾", "¿", "À", "Á",
                "Â", "Ã", "Ä", "Å", "Æ", "Ç", "È", "É", "Ê", "Ë", "Ì", "Í", "Î", "Ï",
                "Ð", "Ñ", "Ò", "Ó", "Ô", "Õ", "Ö", "×", "Ø", "Ù", "Ú", "Û", "Ü", "Ý",
                "Þ", "ß", "à", "á", "â", "ã", "ä", "å", "æ", "ç", "è", "é", "ê", "ë",
                "ì", "í", "î", "ï", "ð", "ñ", "ò", "ó", "ô", "õ", "ö", "÷", "ø", "ù",
                "ú", "û", "ü", "ý", "þ", "ÿ">>
Escapes == <<"%01", "%02", "%03", "%04", "%05", "%06", "%07", "%08", "%09", "%0A", "%0B",
            "%0C", "%0D", "%0E", "%0F", "%10", "%11", "%12", "%13", "%14", "%15", "%16",
            "%17", "%18", "%19", "%1A", "%1B", "%1C", "%1D", "%1E", "%1F", "%21", "%22",
            "%23", "%24", "%25", "%26", "%27", "%28", "%29", "%2A", "%2B", "%2C", "%2F",
            "%3A", "%3B", "%3C", "%3D", "%3E", "%3F", "%40", "%5B", "%5C", "%5D", "%5E",
            "%7B", "%7C", "%7D", "%7F", "%C2%80", "%C2%81", "%C2%82", "%C2%83",
            "%C2%84", "%C2%85", "%C2%86", "%C2%87", "%C2%88", "%C2%89", "%C2%8A",
            "%C2%8B", "%C2%8C", "%C2%8D", "%C2%8E", "%C2%8F", "%C2%90", "%C2%91",
            "%C2%92", "%C2%93", "%C2%94", "%C2%95", "%C2%96", "%C2%97", "%C2%98",
            "%C2%99", "%C2%9A", "%C2%9B", "%C2%9C", "%C2%9D", "%C2%9E", "%C2%9F",
            "%C2%A0", "%C2%A1", "%C2%A2", "%C2%A3", "%C2%A4", "%C2%A5", "%C2%A6",
            "%C2%A7", "%C2%A8", "%C2%A9", "%C2%AA", "%C2%AB", "%C2%AC", "%C2%AD",
            "%C2%AE", "%C2%AF", "%C2%B0", "%C2%B1", "%C2%B2", "%C2%B3", "%C2%B4",
            "%C2%B5", "%C2%B6", "%C2%B7", "%C2%B8", "%C2%B9", "%C2%BA", "%C2%BB",
            "%C2%BC", "%C2%BD", "%C2%BE", "%C2%BF", "%C3%80", "%C3%81", "%C3%82",
            "%C3%83", "%C3%84", "%C3%85", "%C3%86", "%C3%87", "%C3%88", "%C3%89",
            "%C3%8A", "%C3%8B", "%C3%8C", "%C3%8D", "%C3%8E", "%C3%8F", "%C3%90",
            "%C3%91", "%C3%92", "%C3%93", "%C3%94", "%C3%95", "%C3%96", "%C3%97",
            "%C3%98", "%C3%99", "%C3%9A", "%C3%9B", "%C3%9C", "%C3%9D", "%C3%9E",
            "%C3%9F", "%C3%A0", "%C3%A1", "%C3%A2", "%C3%A3", "%C3%A4", "%C3%A5",
            "%C3%A6", "%C3%A7", "%C3%A8", "%C3%A9", "%C3%AA", "%C3%AB", "%C3%AC",
            "%C3%AD", "%C3%AE", "%C3%AF", "%C3%B0", "%C3%B1", "%C3%B2", "%C3%B3",
            "%C3%B4", "%C3%B5", "%C3%B6", "%C3%B7", "%C3%B8", "%C3%B9", "%C3%BA",
            "%C3%BB", "%C3%BC", "%C3%BD", "%C3%BE", "%C3%BF">>

quote_char(c) ==
    IF c = " " THEN "+"
    ELSE IF \E i \in DOMAIN QuotedChars : QuotedChars[i] = c
    THEN Escapes[CHOOSE i \in DOMAIN QuotedChars : QuotedChars[i] = c]
    ELSE c

quote_plus(text) == [i \in DOMAIN text |-> quote_char(text[i])]

\* get_search_url, line 28: prefs["language"] of a mapping without the key
get_search_url_raises(p) == "language" \notin DOMAIN p

\* get_search_url
get_search_url(search_str, page_number, p) ==
    <<BASE_URL, p.country, "/en", "/search?", "query=">> \o quote_plus(search_str)
    \o <<"&fcmedia=Book", "&pageNumber=", ToString(page_number), "&fclanguages=", p.language>>

\* get_kobo_url
get_kobo_url(kobo_id) == <<BASE_URL, "en/ebook/">> \o kobo_id

\* _generate_query for the authors argument, over the tokens the host makes of the
\* title and the authors: the author part is added whenever authors were given
generate_query(title_tokens, authors, author_tokens, p) ==
    LET title == Join([i \in DOMAIN title_tokens |->
                          IF p.remove_leading_zeroes THEN LStrip(title_tokens[i], {"0"})
                          ELSE title_tokens[i]], <<" ">>)
    IN  IF authors # <<>> THEN title \o <<" ">> \o Join(author_tokens, <<" ">>)
        ELSE title

\* ------------------------------------------------------------------ web fetcher
\* cloudscraper.create_scraper(...), lines 97-103: a new session object; n tells the
\* objects of different calls apart
create_scraper(n) == Some(<<"scraper", n>>)

\* _get_session, run without interruption: the session in use after the call
get_session(sess) == IF sess = None THEN create_scraper(0) ELSE sess

\* lines 115-119: none of the three challenge elements is in the page
passed_challenge(pg) ==
    /\ "form.challenge-form" \notin pg.markers
    /\ "form#challenge-form" \notin pg.markers
    /\ "span#challenge-error-text" \notin pg.markers

\* line 111: the loop condition
may_attempt_one_more(n) == n <= MaxAttempts
may_attempt(n) == n < MaxAttempts

\* lines 127-129: session.get raised; the call ends
request_raised_retried(n) ==
    [done |-> FALSE, page |-> None, is_search |-> FALSE, attempts |-> n + 1,
     logged |-> {"exception"}]
request_raised(n) ==
    [done |-> TRUE, page |-> None, is_search |-> FALSE, attempts |-> n,
     logged |-> {"exception"}]

\* line 120: is_search = "/search?" in resp.url
classified_search_by_content(r) == r.page.results_display
classified_search(r) == Contains(r.url, SearchMarker)

\* lines 112-124 and 127-129: one pass of the loop body on the response r received;
\* done: _get_webpage returns (page, is_search); otherwise attempts has grown by one
get_webpage_iter(n, r) ==
    IF r.kind = "exception"
    THEN request_raised(n)
    ELSE IF passed_challenge(r.page)
    THEN [done |-> TRUE, page |-> Some(r.page), is_search |-> classified_search(r),
          attempts |-> n, logged |-> {}]
    ELSE [done |-> FALSE, page |-> None, is_search |-> FALSE, attempts |-> n + 1,
          logged |-> {}]

\* lines 125-126: the loop condition failed; last is the response received last
gave_up(n, sent, last) ==
    [page |-> None, is_search |-> FALSE, attempts |-> n, logged |-> {"giving_up"},
     requests |-> sent]

\* KoboMetadata._get_webpage on the response to its one request
plugin_get_webpage(r) ==
    IF r.kind = "exception"
    THEN [page |-> None, is_search |-> FALSE, attempts |-> 0, logged |-> {"exception"},
          requests |-> 1]
    ELSE [page |-> Some(r.page), is_search |-> r.page.results_display, attempts |-> 0,
          logged |-> {}, requests |-> 1]

\* -------------------------------------------------------------- search paginator
\* result_elements[::2]
EveryElement(s) == s
EverySecond(s) == [i \in 1..((Len(s) + 1) \div 2) |-> s[2 * i - 1]]

\* _parse_search_page
parse_search_page(pg) ==
    IF pg.search_widget THEN EverySecond(pg.title_links)
    ELSE IF pg.h2_links # <<>> THEN pg.h2_links
    ELSE <<>>

\* _parse_search_page: the message it logs
parse_search_page_logged(pg) ==
    IF pg.search_widget THEN {"new_search_page"}
    ELSE IF pg.h2_links # <<>> THEN {"old_search_page"}
    ELSE {"no_matches"}

\* results[:max_matches]
Untruncated(s, n) == s
Truncate(s, n) == SubSeq(s, 1, IF Len(s) < n THEN Len(s) ELSE n)

\* line 202: the loop condition of _perform_query
fetch_next_page_upto_ceiling(res, n, max) == Len(res) < max /\ n <= max_page_num
fetch_next_page(res, n, max) == Len(res) < max /\ n < max_page_num

\* ------------------------------------------------------------------ environment
\* What the host and the storefront may supply.  Texts are spelled out by character
\* where the code looks at characters.
TitleHero == <<"H", "e", "r", "o">>
TitleZero == <<"T", "h", "e", " ", "Z", "e", "r", "o", "!", " ", "H", "e", "r", "o">>
TagRomance == <<"R", "o", "m", "a", "n", "c", "e">>
BlacklistZero == <<" ", "Z", "e", "r", "o", ",", "v", "i", "l">>
BlacklistRomance == <<"r", "o", "m", "a", "n", "c", "e">>
IsbnText == <<"9781761108105">>
CoverSrc == <<"//cdn.kobo.com/book-images/44f0e8b9/", "353/569/90", "/False/", "holly-23.jpg">>

\* the options of the plugin class with their defaults
BasePrefs ==
    [country |-> "us", num_matches |-> 1, title_blacklist |-> <<>>,
     tag_blacklist |-> <<>>, remove_leading_zeroes |-> FALSE, resize_cover |-> FALSE]

\* every number of matches without a blacklist, the largest with either blacklist
PrefsSet ==
    {[BasePrefs EXCEPT !.num_matches = n] : n \in 1..MaxMatches}
    \cup {[BasePrefs EXCEPT !.num_matches = MaxMatches, !.title_blacklist = BlacklistZero,
                            !.remove_leading_zeroes = TRUE],
          [BasePrefs EXCEPT !.num_matches = MaxMatches, !.tag_blacklist = BlacklistRomance,
                            !.resize_cover = TRUE]}

\* The caller of KoboMetadataImpl is not part of the sources; the configuration it
\* passes has, besides the options, the key language: a 2-letter filter or "all".
with_language(p, lang) ==
    [k \in DOMAIN p \cup {"language"} |-> IF k = "language" THEN lang ELSE p[k]]

\* the prefs argument of identify and get_cover_url: the options as they are, or with
\* the language added
PrefsArguments == PrefsSet \cup {with_language(p, "all") : p \in PrefsSet}

IdentifierSets ==
    {[kobo |-> k, isbn |-> i] : k \in {None, Some(<<"k1">>)}, i \in {None, Some(IsbnText)}}
    \cup {[kobo |-> None, isbn |-> Some(<<"bad">>)]}

TitleTokens == <<<<"0", "0", "7">>, TitleHero>>
\* the authors argument and what get_author_tokens makes of it
Authors == <<<<"Ann">>>>
AuthorTokens == <<<<"Ann">>>>

PageHero ==
    [EmptyPage EXCEPT
        !.title_elements = <<<<" ">> \o TitleHero \o <<"\n">>>>,
        !.authors_elements = <<<<"a", "n", "n", " ", " ", "M", "C", "K", "A", "Y">>,
                               <<"j", ".", "k", ".", " ", "o", "'", "n", "e", "i", "l">>>>,
        !.details = <<[text |-> <<" ", "Kobo Originals", " ">>, span |-> <<>>],
                      [text |-> <<"ISBN:">>, span |-> <<IsbnText>>]>>,
        !.cover_elements = <<CoverSrc>>]

PageZero ==
    [EmptyPage EXCEPT
        !.title_elements = <<TitleZero>>,
        !.tags_elements = <<TagRomance, <<"S", "c", "i", ",", " ", "F", "i">>>>,
        !.cover_elements = <<CoverSrc>>]

PageNoCover == [EmptyPage EXCEPT !.title_elements = <<TitleHero>>]

PageNoTitle == [EmptyPage EXCEPT !.cover_elements = <<CoverSrc>>]

\* the i-th product link of results page n of the search for q
Href(q, n, i) == <<"/us/en/ebook/">> \o q \o <<"-p", ToString(n), "-", ToString(i)>>
MobileHref(q, n, i) == <<"kobo://">> \o q \o <<"-p", ToString(n), "-", ToString(i)>>

\* results pages: a body without any element, one without links, one of the older markup, which lists the same
\* product whatever the page number, and one of the newer markup with two products
SearchPagesFor(q, n) ==
    IF n > MaxResultPages
    THEN \* past the last results page the storefront has
         {BlankPage}
    ELSE {BlankPage,
          [EmptyPage EXCEPT !.results_display = TRUE],
          [EmptyPage EXCEPT !.results_display = TRUE, !.h2_links = <<Href(q, 1, 1)>>],
          [EmptyPage EXCEPT !.results_display = TRUE, !.search_widget = TRUE,
                            !.title_links = <<Href(q, n, 1), MobileHref(q, n, 1),
                                              Href(q, n, 2), MobileHref(q, n, 2)>>]}

Exception == [kind |-> "exception", url |-> <<>>, page |-> BlankPage]
Ok(u, pg) == [kind |-> "ok", url |-> u, page |-> pg]
ChallengePage(m) == [EmptyPage EXCEPT !.markers = {m}]

RedirectProduct == <<BASE_URL, "us", "/en", "/ebook/", "fourth-wing">>
RedirectSearch == <<BASE_URL, "us", "/en", "/search?", "query=">>

\* responses to the request for results page n of the search for q at address u
SearchResponses(u, q, n) ==
    {Exception} \cup {Ok(u, sp) : sp \in SearchPagesFor(q, n)} \cup {Ok(RedirectProduct, PageHero)}

\* the book whose product page is at address u: the second link of a results page
\* and the direct identifier address lead to the one, every other address to the other
BookAt(u) ==
    IF u[Len(u)] = "2" \/ StartsWith(u, <<BASE_URL, "en/ebook/">>) THEN PageZero ELSE PageHero

\* responses to the request for a candidate's address u
DetailResponses(u) ==
    {Exception}
    \cup {Ok(IF Contains(u, SearchMarker) THEN RedirectProduct ELSE u, dp) :
             dp \in {BookAt(u), PageNoCover, PageNoTitle}}
    \cup {Ok(RedirectSearch, [EmptyPage EXCEPT !.results_display = TRUE])}

\* the host threads
Threads == 1..NumThreads

\* ------------------------------------------------------------------------ state
\* After construction: no session, nothing cached, no entry point running.
Init ==
    /\ op = "none" /\ pc = "idle"
    /\ identifiers = [kobo |-> None, isbn |-> None]
    /\ query = <<>>
    /\ prefs \in PrefsSet
    /\ stage = "" /\ session = None /\ url = <<>>
    /\ fetch_pc = "none" /\ attempts = 0 /\ requests = 0 /\ resp = None
    /\ page = None /\ is_search = FALSE
    /\ page_num = 0 /\ query_results = <<>> /\ query_ret = <<>>
    /\ urls = <<>> /\ pos = 0 /\ index = 0 /\ results = <<>> /\ metadata = None
    /\ result_queue = <<>> /\ cache = {} /\ log = {} /\ raised = "" /\ retval = None
    /\ res_queue = <<>> /\ dc_cover_url = None
    /\ thread_pc = [t \in Threads |-> "idle"]
    /\ thread_session = [t \in Threads |-> None]

argument_vars == <<identifiers, query, prefs>>
fetch_locals == <<fetch_pc, attempts, requests, resp>>
query_locals == <<page_num, query_results, query_ret>>
loop_locals == <<urls, pos, index, results, metadata>>
cover_locals == <<res_queue, dc_cover_url>>
thread_locals == <<thread_pc, thread_session>>

\* the max_matches argument of the running _perform_query
max_matches == IF op = "get_cover_url" THEN 1 ELSE prefs.num_matches

\* the query argument of the running _perform_query
query_arg == IF stage = "isbn" THEN check_isbn(identifiers.isbn)[1] ELSE query

\* the entry points of KoboMetadataImpl
ImplOps == {"identify", "get_cover_url"}

\* _get_webpage, lines 108-110: the call is entered and the session is there; the
\* first request follows
KoboMetadataImpl_get_webpage ==
    /\ op \in ImplOps /\ fetch_pc = "none"
    /\ pc \in {"query_first", "query_next", "fetch_metadata", "cover_page"}
    /\ fetch_pc' = "get"
    /\ session' = get_session(session)
    /\ attempts' = 0 /\ requests' = 0 /\ resp' = None
    /\ log' = {}
    /\ UNCHANGED <<op, pc, argument_vars, stage, url, page, is_search, query_locals,
                   loop_locals, result_queue, cache, raised, retval>>
    /\ UNCHANGED <<cover_locals, thread_locals>>

\* what the storefront may answer to a request of the call under way: a challenge
\* page, or an answer to the request
FetchResponses ==
    {Ok(url, ChallengePage("form#challenge-form"))}
    \cup (IF pc \in {"query_first", "query_next"}
          THEN SearchResponses(url, query_arg, page_num)
          ELSE DetailResponses(url))

\* _get_webpage, lines 111-124 and 127-129: one request and what the loop body does
\* with the response; the call returns (page, is_search) to its caller, or attempts
\* grows and after the pause the loop condition is tested again
KoboMetadataImpl_get_webpage_request ==
    /\ op \in ImplOps /\ fetch_pc = "get"
    /\ may_attempt(attempts)
    /\ \E r \in FetchResponses :
          LET it == get_webpage_iter(attempts, r)
          IN  /\ log' = it.logged
              /\ IF it.done
                 THEN /\ fetch_pc' = "ret"
                      /\ page' = it.page /\ is_search' = it.is_search
                      /\ attempts' = 0 /\ requests' = 0 /\ resp' = None
                 ELSE /\ resp' = Some(r)
                      /\ requests' = requests + 1
                      /\ attempts' = it.attempts
                      /\ UNCHANGED <<fetch_pc, page, is_search>>
    /\ UNCHANGED <<op, pc, argument_vars, stage, session, url, query_locals, loop_locals,
                   result_queue, cache, raised, retval>>
    /\ UNCHANGED <<cover_locals, thread_locals>>

\* _get_webpage, lines 125-126: the loop ends without a page
KoboMetadataImpl_get_webpage_give_up ==
    /\ op \in ImplOps /\ fetch_pc = "get"
    /\ ~may_attempt(attempts)
    /\ LET r == gave_up(attempts, requests, resp[1])
       IN  page' = r.page /\ is_search' = r.is_search /\ log' = r.logged
    /\ fetch_pc' = "ret"
    /\ attempts' = 0 /\ requests' = 0 /\ resp' = None
    /\ UNCHANGED <<op, pc, argument_vars, stage, session, url, query_locals, loop_locals,
                   result_queue, cache, raised, retval>>
    /\ UNCHANGED <<cover_locals, thread_locals>>

\* what the call that has returned gave its caller, and what it logged
Returned == [page |-> page, is_search |-> is_search, logged |-> log]

\* the caller goes on with the result r of the call that has returned, and logs logged
Fetched(r, logged) ==
    /\ page' = r.page
    /\ is_search' = r.is_search
    /\ log' = r.logged \cup logged
    /\ fetch_pc' = "none"
    /\ UNCHANGED <<session, attempts, requests, resp>>

\* a _get_webpage call of the plugin class ended with result r: the host's browser made
\* the request, the class has no session
PluginFetched(r, logged) ==
    /\ page' = r.page
    /\ is_search' = r.is_search
    /\ log' = r.logged \cup logged
    /\ UNCHANGED <<session, fetch_locals>>

\* a step that calls no _get_webpage: the next caller's page and is_search are unassigned
NoFetch ==
    /\ page' = None /\ is_search' = FALSE /\ log' = {}
    /\ UNCHANGED <<session, fetch_locals>>

\* the entry point ends by raising exc
Raise(exc) == pc' = "done" /\ raised' = exc

\* ---------------------------------------------------- KoboMetadataImpl: paginator
\* _perform_query is entered for the query of stage st: lines 185-188 up to the request
StartQuery(st, q, p) ==
    IF get_search_url_raises(p)
    THEN /\ Raise("KeyError")
         /\ UNCHANGED <<stage, url, query_locals>>
    ELSE /\ stage' = st
         /\ url' = get_search_url(q, 1, p)
         /\ page_num' = 1 /\ query_results' = <<>> /\ query_ret' = <<>>
         /\ pc' = "query_first"
         /\ UNCHANGED raised

\* lines 202-209 with results = res and page_num = n: next page, or return
QueryLoop(res, n) ==
    /\ query_results' = res
    /\ page_num' = n
    /\ IF fetch_next_page(res, n, max_matches)
       THEN /\ url' = get_search_url(query_arg, n, prefs)
            /\ pc' = "query_next"
            /\ UNCHANGED query_ret
       ELSE /\ pc' = "query_return"
            /\ query_ret' = Truncate(res, max_matches)
            /\ UNCHANGED url

\* line 194: the query was redirected straight to a product page
never_redirected(search) == FALSE
redirected(search) == ~search

\* _perform_query, lines 188-202: the call for the first results page has returned
KoboMetadataImpl_perform_query_first ==
    /\ op \in ImplOps /\ pc = "query_first" /\ fetch_pc = "ret"
    /\ \E r \in {Returned} :
          /\ Fetched(r, IF r.page = None \/ redirected(r.is_search) THEN {}
                        ELSE parse_search_page_logged(r.page[1]))
          /\ IF r.page = None
             THEN /\ pc' = "query_return" /\ query_ret' = <<>>
                  /\ UNCHANGED <<url, page_num, query_results>>
             ELSE IF redirected(r.is_search)
             THEN /\ pc' = "query_return" /\ query_ret' = <<url>>
                  /\ UNCHANGED <<url, page_num, query_results>>
             ELSE QueryLoop(parse_search_page(r.page[1]), 2)
    /\ UNCHANGED <<op, argument_vars, stage, loop_locals, result_queue, cache, raised, retval>>
    /\ UNCHANGED <<cover_locals, thread_locals>>

\* bool(page) of an lxml element: it has child elements
element_truth(pg) == pg.children

\* line 205 (and __init__.py 291): assert page and is_search, on the optional page
assertion_fails_without_page(pg, search) == pg = None
assertion_fails_on_detail_only(pg, search) == pg # None /\ ~search
assertion_fails(pg, search) == pg = None \/ ~element_truth(pg[1]) \/ ~search

\* _perform_query, lines 203-207: the call for a later results page has returned
KoboMetadataImpl_perform_query_next ==
    /\ op \in ImplOps /\ pc = "query_next" /\ fetch_pc = "ret"
    /\ \E r \in {Returned} :
          /\ Fetched(r, IF assertion_fails(r.page, r.is_search) \/ r.page = None THEN {}
                        ELSE parse_search_page_logged(r.page[1]))
          /\ IF assertion_fails(r.page, r.is_search)
             THEN /\ Raise("AssertionError")
                  /\ UNCHANGED <<url, query_locals>>
             ELSE IF r.page = None
             THEN \* line 212: page.xpath on None
                  /\ Raise("AttributeError")
                  /\ UNCHANGED <<url, query_locals>>
             ELSE /\ QueryLoop(query_results \o parse_search_page(r.page[1]), page_num + 1)
                  /\ UNCHANGED raised
    /\ UNCHANGED <<op, argument_vars, stage, loop_locals, result_queue, cache, retval>>
    /\ UNCHANGED <<cover_locals, thread_locals>>

\* ------------------------------------------------- KoboMetadataImpl: orchestrator
\* urls.extend(more)
extend_front(list, more) == more \o list
extend(list, more) == list \o more

\* the for loop of _fetch_metadata is entered with the candidates us (lines 148-151);
\* with no candidate it returns results at once and identify puts nothing
StartFetchMetadata(us) ==
    /\ urls' = us /\ index' = 0 /\ results' = <<>>
    /\ UNCHANGED metadata
    /\ IF us = <<>>
       THEN pc' = "done" /\ pos' = 0 /\ UNCHANGED url
       ELSE pc' = "fetch_metadata" /\ pos' = 1 /\ url' = us[1]

\* identify, lines 44-52: up to the first request
KoboMetadataImpl_identify ==
    /\ pc = "idle"
    /\ \E ids \in IdentifierSets, p \in PrefsArguments :
          LET isbn == check_isbn(ids.isbn)
              kobo == ids.kobo
              q == generate_query(TitleTokens, Authors, AuthorTokens, p)
          IN  /\ op' = "identify"
              /\ identifiers' = ids
              /\ prefs' = p
              /\ query' = q
              /\ urls' = IF kobo # None THEN <<get_kobo_url(kobo[1])>> ELSE <<>>
              /\ IF isbn # None THEN StartQuery("isbn", isbn[1], p)
                 ELSE StartQuery("text", q, p)
    /\ NoFetch
    /\ UNCHANGED <<pos, index, results, metadata, result_queue, cache, retval>>
    /\ UNCHANGED <<cover_locals, thread_locals>>

\* identify, lines 52-53: the ISBN search has returned, the free-text search starts
KoboMetadataImpl_identify_isbn_searched ==
    /\ op = "identify" /\ pc = "query_return" /\ stage = "isbn"
    /\ urls' = extend(urls, query_ret)
    /\ StartQuery("text", query, prefs)
    /\ NoFetch
    /\ UNCHANGED <<op, argument_vars, pos, index, results, metadata, result_queue, cache,
                   retval>>
    /\ UNCHANGED <<cover_locals, thread_locals>>

\* identify, lines 53-54: the free-text search has returned, _fetch_metadata starts
KoboMetadataImpl_identify_searched ==
    /\ op = "identify" /\ pc = "query_return" /\ stage = "text"
    /\ StartFetchMetadata(extend(urls, query_ret))
    /\ NoFetch
    /\ UNCHANGED <<op, argument_vars, stage, query_locals, result_queue, cache, raised,
                   retval>>
    /\ UNCHANGED <<cover_locals, thread_locals>>

\* line 167
next_index_skipping_rejected(idx, md) == IF md = None THEN idx ELSE idx + 1
next_index(idx, md) == idx + 1

\* line 150: the url the for loop takes after the one at position i of us
next_url_skipping(us, i) == us[IF i + 2 <= Len(us) THEN i + 2 ELSE i + 1]
next_url(us, i) == us[i + 1]

\* lines 162-164: results after the candidate's parse gave md; the rank given to the
\* record is idx
collect(res, md, idx) ==
    IF md # None THEN Append(res, [md[1] EXCEPT !.source_relevance = Some(idx)])
    ELSE res

\* _fetch_metadata, lines 150-168, one candidate, once the call for its page has
\* returned; and identify, lines 55-56, when
\* _fetch_metadata returns: a list is put on the queue, None cannot be iterated
KoboMetadataImpl_fetch_metadata ==
    /\ op = "identify" /\ pc = "fetch_metadata" /\ fetch_pc = "ret"
    /\ \E r \in {Returned} :
          LET parsed == parse_book_page(r.page[1], prefs, cache)
          IN  IF r.page = None \/ r.is_search
              THEN \* line 156: return (None)
                   /\ Fetched(r, {})
                   /\ Raise("TypeError")
                   /\ UNCHANGED <<url, pos, index, results, metadata, result_queue, cache>>
              ELSE IF parsed.raised # ""
              THEN \* line 160: return (None)
                   /\ Fetched(r, {"lookup_exception"})
                   /\ Raise("TypeError")
                   /\ UNCHANGED <<url, pos, index, results, metadata, result_queue, cache>>
              ELSE /\ Fetched(r, {})
                   /\ cache' = parsed.cache
                   /\ metadata' = parsed.metadata
                   /\ results' = collect(results, parsed.metadata, index)
                   /\ index' = next_index(index, parsed.metadata)
                   /\ IF pos < Len(urls)
                      THEN /\ pos' = pos + 1
                           /\ url' = next_url(urls, pos)
                           /\ UNCHANGED <<pc, result_queue, raised>>
                      ELSE /\ pc' = "done"
                           /\ result_queue' = result_queue \o results'
                           /\ UNCHANGED <<pos, url, raised>>
    /\ UNCHANGED <<op, argument_vars, stage, query_locals, urls, retval>>
    /\ UNCHANGED <<cover_locals, thread_locals>>

\* get_cover_url, lines 67-72: up to the first request
KoboMetadataImpl_get_cover_url ==
    /\ pc = "idle"
    /\ \E ids \in IdentifierSets, p \in PrefsArguments :
          LET isbn == check_isbn(ids.isbn)
              q == generate_query(TitleTokens, Authors, AuthorTokens, p)
          IN  /\ op' = "get_cover_url"
              /\ identifiers' = ids
              /\ prefs' = p
              /\ query' = q
              /\ urls' = <<>>
              /\ IF isbn # None THEN StartQuery("isbn", isbn[1], p)
                 ELSE StartQuery("text", q, p)
    /\ NoFetch
    /\ UNCHANGED <<pos, index, results, metadata, result_queue, cache, retval>>
    /\ UNCHANGED <<cover_locals, thread_locals>>

\* get_cover_url, lines 79-84 with the candidates us: None without a candidate,
\* otherwise the first candidate is requested
CoverCandidates(us) ==
    /\ urls' = us
    /\ IF us = <<>>
       THEN pc' = "done" /\ retval' = None /\ UNCHANGED url
       ELSE pc' = "cover_page" /\ url' = us[1] /\ UNCHANGED retval

\* line 76: if not urls
search_always(us) == TRUE
search_needed(us) == us = <<>>

\* get_cover_url, lines 72-84: the ISBN search has returned
KoboMetadataImpl_get_cover_url_isbn_searched ==
    /\ op = "get_cover_url" /\ pc = "query_return" /\ stage = "isbn"
    /\ IF search_needed(extend(urls, query_ret))
       THEN /\ urls' = extend(urls, query_ret)
            /\ StartQuery("text", query, prefs)
            /\ UNCHANGED retval
       ELSE /\ CoverCandidates(extend(urls, query_ret))
            /\ UNCHANGED <<stage, query_locals, raised>>
    /\ NoFetch
    /\ UNCHANGED <<op, argument_vars, pos, index, results, metadata, result_queue, cache>>
    /\ UNCHANGED <<cover_locals, thread_locals>>

\* get_cover_url, lines 77-84: the free-text search has returned
KoboMetadataImpl_get_cover_url_searched ==
    /\ op = "get_cover_url" /\ pc = "query_return" /\ stage = "text"
    /\ CoverCandidates(extend(urls, query_ret))
    /\ NoFetch
    /\ UNCHANGED <<op, argument_vars, stage, query_locals, pos, index, results, metadata,
                   result_queue, cache, raised>>
    /\ UNCHANGED <<cover_locals, thread_locals>>

\* get_cover_url, lines 84-89: the call for the first candidate's page has returned
KoboMetadataImpl_get_cover_url_page ==
    /\ op = "get_cover_url" /\ pc = "cover_page" /\ fetch_pc = "ret"
    /\ \E r \in {Returned} :
          LET cover == parse_book_page_for_cover(r.page[1], prefs)
          IN  /\ Fetched(r, {})
              /\ IF r.page = None \/ r.is_search
                 THEN pc' = "done" /\ retval' = Some(<<>>) /\ UNCHANGED raised
                 ELSE IF cover.raised # ""
                 THEN Raise(cover.raised) /\ UNCHANGED retval
                 ELSE pc' = "done" /\ retval' = Some(cover.cover_url) /\ UNCHANGED raised
    /\ UNCHANGED <<op, argument_vars, stage, url, query_locals, loop_locals, result_queue,
                   cache>>
    /\ UNCHANGED <<cover_locals, thread_locals>>

\* ------------------------------------------------- KoboMetadata (__init__.py)
\* _get_search_url
plugin_get_search_url(search_text, page_number, p) ==
    <<BASE_URL, p.country, "/en", "/search?", "query=">> \o quote_plus(search_text)
    \o <<"&fcmedia=Book", "&pageNumber=", ToString(page_number)>>

\* _perform_query is entered for the query of stage st: lines 272-275 up to the request
PluginStartQuery(st, q) ==
    /\ stage' = st
    /\ url' = plugin_get_search_url(q, 1, prefs)
    /\ page_num' = 1 /\ query_results' = <<>> /\ query_ret' = <<>>
    /\ pc' = "query_first"

\* line 288: the loop condition
plugin_fetch_next_page(res, max) == Len(res) < max

\* lines 288-296 with results = res and page_num = n: next page, or return
PluginQueryLoop(res, n) ==
    /\ query_results' = res
    /\ page_num' = n
    /\ IF plugin_fetch_next_page(res, prefs.num_matches)
       THEN /\ url' = plugin_get_search_url(query_arg, n, prefs)
            /\ pc' = "query_next"
            /\ UNCHANGED query_ret
       ELSE /\ pc' = "query_return"
            /\ query_ret' = Truncate(res, prefs.num_matches)
            /\ UNCHANGED url

\* the entry points of the plugin class that run identify
PluginOps == {"plugin_identify", "download_cover"}

\* position after identify has returned: download_cover goes on at line 215
identify_returned == IF op = "download_cover" THEN "identified" ELSE "done"

\* identify, lines 166-174 with identifiers = ids: up to the first request
PluginIdentifyEntry(ids) ==
    LET isbn == check_isbn(ids.isbn)
        q == generate_query(TitleTokens, Authors, AuthorTokens, prefs)
    IN  /\ identifiers' = ids
        /\ query' = q
        /\ urls' = <<>>
        /\ IF isbn # None THEN PluginStartQuery("isbn", isbn[1])
           ELSE PluginStartQuery("text", q)

\* identify is called by the host
KoboMetadata_identify ==
    /\ pc = "idle"
    /\ op' = "plugin_identify"
    /\ \E ids \in IdentifierSets : PluginIdentifyEntry(ids)
    /\ NoFetch
    /\ UNCHANGED <<prefs, pos, index, results, metadata, result_queue, cache, raised, retval>>
    /\ UNCHANGED <<cover_locals, thread_locals>>

\* _perform_query, lines 275-288: the first results page is fetched
KoboMetadata_perform_query_first ==
    /\ op \in PluginOps /\ pc = "query_first"
    /\ \E f \in SearchResponses(url, query_arg, 1) : \E r \in {plugin_get_webpage(f)} :
          /\ PluginFetched(r, {})
          /\ IF r.page = None
             THEN /\ pc' = "query_return" /\ query_ret' = <<>>
                  /\ UNCHANGED <<url, page_num, query_results>>
             ELSE IF ~r.is_search
             THEN /\ pc' = "query_return" /\ query_ret' = <<url>>
                  /\ UNCHANGED <<url, page_num, query_results>>
             ELSE PluginQueryLoop(r.page[1].h2_links, 2)
    /\ UNCHANGED <<op, argument_vars, stage, loop_locals, result_queue, cache, raised, retval>>
    /\ UNCHANGED <<cover_locals, thread_locals>>

\* _perform_query, lines 289-294: a later results page is fetched
KoboMetadata_perform_query_next ==
    /\ op \in PluginOps /\ pc = "query_next"
    /\ \E f \in SearchResponses(url, query_arg, page_num) : \E r \in {plugin_get_webpage(f)} :
          /\ PluginFetched(r, {})
          /\ IF assertion_fails(r.page, r.is_search)
             THEN /\ Raise("AssertionError")
                  /\ UNCHANGED <<url, query_locals>>
             ELSE IF r.page = None
             THEN \* line 292: tree.xpath on None
                  /\ Raise("AttributeError")
                  /\ UNCHANGED <<url, query_locals>>
             ELSE /\ PluginQueryLoop(query_results \o r.page[1].h2_links, page_num + 1)
                  /\ UNCHANGED raised
    /\ UNCHANGED <<op, argument_vars, stage, loop_locals, result_queue, cache, retval>>
    /\ UNCHANGED <<cover_locals, thread_locals>>

\* identify, lines 174-180: the ISBN search has returned, the free-text search starts
KoboMetadata_identify_isbn_searched ==
    /\ op \in PluginOps /\ pc = "query_return" /\ stage = "isbn"
    /\ urls' = IF query_ret # <<>> THEN Append(urls, query_ret[1]) ELSE urls
    /\ PluginStartQuery("text", query)
    /\ NoFetch
    /\ UNCHANGED <<op, argument_vars, pos, index, results, metadata, result_queue, cache,
                   raised, retval>>
    /\ UNCHANGED <<cover_locals, thread_locals>>

\* identify, lines 180-184: the free-text search has returned, the loop starts
KoboMetadata_identify_searched ==
    /\ op \in PluginOps /\ pc = "query_return" /\ stage = "text"
    /\ urls' = extend(urls, query_ret)
    /\ index' = 0
    /\ IF urls' = <<>>
       THEN pc' = identify_returned /\ pos' = 0 /\ UNCHANGED url
       ELSE pc' = "lookup" /\ pos' = 1 /\ url' = urls'[1]
    /\ NoFetch
    /\ UNCHANGED <<op, argument_vars, stage, query_locals, results, metadata, result_queue,
                   cache, raised, retval>>
    /\ UNCHANGED <<cover_locals, thread_locals>>

\* result_queue.put(metadata), line 193, when the parse gave md: the queue identify was
\* given is the host's sink, or res_queue when download_cover called it
put_result(md, idx) ==
    IF op = "download_cover"
    THEN res_queue' = collect(res_queue, md, idx) /\ UNCHANGED result_queue
    ELSE result_queue' = collect(result_queue, md, idx) /\ UNCHANGED res_queue

\* identify, lines 183-197, one candidate, with _lookup_metadata, lines 300-385
KoboMetadata_lookup_metadata ==
    /\ op \in PluginOps /\ pc = "lookup"
    /\ \E f \in DetailResponses(url) : \E r \in {plugin_get_webpage(f)} :
          LET parsed == IF r.page = None \/ r.is_search
                        THEN [raised |-> "", metadata |-> None, cache |-> cache]
                        ELSE lookup_metadata_parse(r.page[1], prefs, cache)
          IN  IF parsed.raised # ""
              THEN \* lines 187-189: logged, identify returns
                   /\ PluginFetched(r, {"lookup_exception"})
                   /\ pc' = identify_returned
                   /\ UNCHANGED <<url, pos, index, metadata, result_queue, res_queue, cache>>
              ELSE /\ PluginFetched(r, {})
                   /\ cache' = parsed.cache
                   /\ metadata' = parsed.metadata
                   /\ put_result(parsed.metadata, index)
                   /\ index' = next_index(index, parsed.metadata)
                   /\ IF pos < Len(urls)
                      THEN pos' = pos + 1 /\ url' = urls[pos + 1] /\ UNCHANGED pc
                      ELSE pc' = identify_returned /\ UNCHANGED <<pos, url>>
    /\ UNCHANGED <<op, argument_vars, stage, query_locals, urls, results, raised, retval,
                   dc_cover_url, thread_locals>>

\* get_cached_cover_url, lines 148-154: isbn is identifiers.get("isbn", None)
get_cached_cover_url_never(c, isbn) == None
get_cached_cover_url(c, isbn) ==
    IF isbn # None THEN cached_identifier_to_cover_url(c, isbn) ELSE None

\* what br.open_novisit(cover_url).read() gives at line 226: None stands for an
\* exception, which is all there is without an address to open
CoverBytes(u) == <<"image at">> \o u
open_novisit_read_without_address(u) ==
    {None, Some(CoverBytes(IF u = None THEN <<>> ELSE u[1]))}
open_novisit_read(u) == IF u = None THEN {None} ELSE {None, Some(CoverBytes(u[1]))}

\* download_cover, lines 210-214: the cache is looked up, identify is called without
\* a cached address
KoboMetadata_download_cover ==
    /\ pc = "idle"
    /\ op' = "download_cover"
    /\ \E ids \in IdentifierSets :
          LET cached == get_cached_cover_url(cache, ids.isbn)
          IN  /\ dc_cover_url' = cached
              /\ res_queue' = <<>>
              /\ IF cached # None
                 THEN /\ identifiers' = ids
                      /\ pc' = "cover_fetch"
                      /\ log' = {}
                      /\ UNCHANGED <<query, stage, url, query_locals, urls>>
                 ELSE /\ PluginIdentifyEntry(ids)
                      /\ log' = {"no_cached_url"}
    /\ page' = None /\ is_search' = FALSE
    /\ UNCHANGED <<session, fetch_locals>>
    /\ UNCHANGED <<prefs, pos, index, results, metadata, result_queue, cache, raised, retval,
                   thread_locals>>

\* download_cover, lines 215-222: identify has returned
KoboMetadata_download_cover_identified ==
    /\ op = "download_cover" /\ pc = "identified"
    /\ IF res_queue = <<>>
       THEN /\ log' = {"could_not_identify"}
            /\ pc' = "done"
            /\ UNCHANGED <<metadata, cover_locals>>
       ELSE LET found == get_cached_cover_url(cache, Head(res_queue).isbn)
            IN  /\ metadata' = Some(Head(res_queue))
                /\ res_queue' = Tail(res_queue)
                /\ dc_cover_url' = found
                /\ log' = IF found = None THEN {"could_not_find_cover"} ELSE {}
                /\ pc' = "cover_fetch"
    /\ page' = None /\ is_search' = FALSE
    /\ UNCHANGED <<session, fetch_locals>>
    /\ UNCHANGED <<op, argument_vars, stage, url, query_locals, urls, pos, index, results,
                   result_queue, cache, raised, retval, thread_locals>>

\* download_cover, lines 224-231: the cover is read and put on the host's sink
KoboMetadata_download_cover_fetch ==
    /\ op = "download_cover" /\ pc = "cover_fetch"
    /\ \E cover \in open_novisit_read(dc_cover_url) :
          IF cover = None
          THEN log' = {"cover_exception"} /\ UNCHANGED result_queue
          ELSE log' = {} /\ result_queue' = Append(result_queue, <<"self", cover[1]>>)
    /\ pc' = "done"
    /\ page' = None /\ is_search' = FALSE
    /\ UNCHANGED <<session, fetch_locals>>
    /\ UNCHANGED <<op, argument_vars, stage, url, query_locals, loop_locals, cache, raised,
                   retval, cover_locals, thread_locals>>

\* ------------------------------------------------ _get_webpage, request by request
FetchUrls ==
    {get_search_url(TitleHero, 1, with_language(BasePrefs, "all")),
     <<BASE_URL, "us", "/en", "/ebook/", "holly-23">>}

\* any of the challenge pages, or any page at the address asked for or at another one
StepResponses(u) ==
    {Exception}
    \cup {Ok(u, ChallengePage(m)) : m \in ChallengeMarkers}
    \cup {Ok(f, pg) : f \in {u, RedirectProduct, RedirectSearch},
                      pg \in {[EmptyPage EXCEPT !.results_display = TRUE,
                                              !.h2_links = <<Href(TitleHero, 1, 1)>>],
                             PageHero}}

\* _get_webpage is called: lines 108-110
get_webpage_call ==
    /\ pc = "idle"
    /\ \E u \in FetchUrls : url' = u
    /\ op' = "get_webpage" /\ pc' = "get"
    /\ session' = get_session(session)
    /\ fetch_pc' = "get"
    /\ attempts' = 0 /\ requests' = 0
    /\ UNCHANGED <<argument_vars, stage, resp, page, is_search, query_locals, loop_locals,
                   result_queue, cache, log, raised, retval>>
    /\ UNCHANGED <<cover_locals, thread_locals>>

\* lines 111-124 and 127-129: one request and what the loop body does with the response
get_webpage_request ==
    /\ op = "get_webpage" /\ pc = "get"
    /\ may_attempt(attempts)
    /\ \E r \in StepResponses(url) :
          LET it == get_webpage_iter(attempts, r)
          IN  /\ resp' = Some(r)
              /\ requests' = requests + 1
              /\ attempts' = it.attempts
              /\ log' = it.logged
              /\ fetch_pc' = IF it.done THEN "ret" ELSE "get"
              /\ IF it.done
                 THEN pc' = "ret" /\ page' = it.page /\ is_search' = it.is_search
                 ELSE UNCHANGED <<pc, page, is_search>>
    /\ UNCHANGED <<op, argument_vars, stage, session, url, query_locals, loop_locals,
                   result_queue, cache, raised, retval>>
    /\ UNCHANGED <<cover_locals, thread_locals>>

\* lines 125-126: the loop ends without a page
get_webpage_give_up ==
    /\ op = "get_webpage" /\ pc = "get"
    /\ ~may_attempt(attempts)
    /\ LET r == gave_up(attempts, requests, resp[1])
       IN  page' = r.page /\ is_search' = r.is_search /\ log' = r.logged
    /\ pc' = "ret"
    /\ fetch_pc' = "ret"
    /\ UNCHANGED <<op, argument_vars, stage, session, url, attempts, requests, resp, query_locals,
                   loop_locals, result_queue, cache, raised, retval>>
    /\ UNCHANGED <<cover_locals, thread_locals>>

\* ------------------------------------- _get_session, statement by statement
\* Host threads call _get_webpage or get_cover on one KoboMetadataImpl; each call
\* starts with _get_session, whose statements of different threads interleave.
session_frame ==
    UNCHANGED <<op, pc, argument_vars, stage, url, fetch_locals, page, is_search,
                query_locals, loop_locals, result_queue, cache, log, raised, retval,
                cover_locals>>

\* line 92 or 108: thread t calls _get_session
get_session_call(t) ==
    /\ thread_pc[t] \in {"idle", "got"}
    /\ thread_pc' = [thread_pc EXCEPT ![t] = "test"]
    /\ UNCHANGED <<session, thread_session>>
    /\ session_frame

\* line 96: if self.session is None
get_session_test(t) ==
    /\ thread_pc[t] = "test"
    /\ thread_pc' = [thread_pc EXCEPT ![t] = IF session = None THEN "create" ELSE "return"]
    /\ UNCHANGED <<session, thread_session>>
    /\ session_frame

\* lines 97-103: self.session = cloudscraper.create_scraper(...)
get_session_create(t) ==
    /\ thread_pc[t] = "create"
    /\ session' = create_scraper(t)
    /\ thread_pc' = [thread_pc EXCEPT ![t] = "return"]
    /\ UNCHANGED thread_session
    /\ session_frame

\* line 104: return self.session; the caller sends its request with it
get_session_return(t) ==
    /\ thread_pc[t] = "return"
    /\ thread_session' = [thread_session EXCEPT ![t] = session]
    /\ thread_pc' = [thread_pc EXCEPT ![t] = "got"]
    /\ UNCHANGED session
    /\ session_frame

\* ------------------------------------------------------- _parse_search_page alone
\* the sequences over S of at most n elements
SeqsUpTo(S, n) == UNION {[1..k -> S] : k \in 0..n}

\* hrefs a results page may carry
SearchPageLinks == {Href(<<"hero">>, 1, 1), MobileHref(<<"hero">>, 1, 1)}

\* results pages of every shape: with or without the widget of the newer markup, with
\* any links of the newer and of the older markup
SearchPageInputs ==
    {[EmptyPage EXCEPT !.results_display = TRUE, !.search_widget = w,
                       !.title_links = tl, !.h2_links = hl] :
        w \in BOOLEAN, tl \in SeqsUpTo(SearchPageLinks, MaxLinks),
        hl \in SeqsUpTo(SearchPageLinks, MaxLinks)}

\* _parse_search_page, lines 212-228, called on a page
KoboMetadataImpl_parse_search_page ==
    /\ pc = "idle"
    /\ \E pg \in SearchPageInputs :
          /\ page' = Some(pg)
          /\ query_ret' = parse_search_page(pg)
          /\ log' = parse_search_page_logged(pg)
    /\ op' = "parse_search_page" /\ pc' = "ret"
    /\ UNCHANGED <<argument_vars, stage, session, url, fetch_locals, is_search, page_num,
                   query_results, loop_locals, result_queue, cache, raised, retval>>
    /\ UNCHANGED <<cover_locals, thread_locals>>

\* ------------------------------------------------------------- specifications
Next ==
    \/ KoboMetadataImpl_identify
    \/ KoboMetadataImpl_get_cover_url
    \/ KoboMetadataImpl_get_webpage
    \/ KoboMetadataImpl_get_webpage_request
    \/ KoboMetadataImpl_get_webpage_give_up
    \/ KoboMetadataImpl_perform_query_first
    \/ KoboMetadataImpl_perform_query_next
    \/ KoboMetadataImpl_identify_isbn_searched
    \/ KoboMetadataImpl_identify_searched
    \/ KoboMetadataImpl_fetch_metadata
    \/ KoboMetadataImpl_get_cover_url_isbn_searched
    \/ KoboMetadataImpl_get_cover_url_searched
    \/ KoboMetadataImpl_get_cover_url_page
    \/ KoboMetadata_identify
    \/ KoboMetadata_perform_query_first
    \/ KoboMetadata_perform_query_next
    \/ KoboMetadata_identify_isbn_searched
    \/ KoboMetadata_identify_searched
    \/ KoboMetadata_lookup_metadata

\* the entry points; a _get_webpage call of KoboMetadataImpl takes one step for each
\* request
Spec == Init /\ [][Next]_vars

NextFetch ==
    \/ get_webpage_call
    \/ get_webpage_request
    \/ get_webpage_give_up

\* one _get_webpage call, one request a step
SpecFetch == Init /\ [][NextFetch]_vars

\* caches an earlier identify with the preferences p may have left: nothing, or the
\* entry written while a product page was parsed
CoverCaches(p) ==
    {{}} \cup {lookup_metadata_parse(pg, p, {}).cache : pg \in {PageHero, PageZero}}

InitCover ==
    /\ op = "none" /\ pc = "idle"
    /\ identifiers = [kobo |-> None, isbn |-> None]
    /\ query = <<>>
    /\ prefs \in PrefsSet
    /\ stage = "" /\ session = None /\ url = <<>>
    /\ fetch_pc = "none" /\ attempts = 0 /\ requests = 0 /\ resp = None
    /\ page = None /\ is_search = FALSE
    /\ page_num = 0 /\ query_results = <<>> /\ query_ret = <<>>
    /\ urls = <<>> /\ pos = 0 /\ index = 0 /\ results = <<>> /\ metadata = None
    /\ result_queue = <<>> /\ cache \in CoverCaches(prefs) /\ log = {} /\ raised = ""
    /\ retval = None /\ res_queue = <<>> /\ dc_cover_url = None
    /\ thread_pc = [t \in Threads |-> "idle"]
    /\ thread_session = [t \in Threads |-> None]

NextCover ==
    \/ KoboMetadata_download_cover
    \/ KoboMetadata_perform_query_first
    \/ KoboMetadata_perform_query_next
    \/ KoboMetadata_identify_isbn_searched
    \/ KoboMetadata_identify_searched
    \/ KoboMetadata_lookup_metadata
    \/ KoboMetadata_download_cover_identified
    \/ KoboMetadata_download_cover_fetch

\* download_cover of the plugin class, with what the cache may hold
SpecCover == InitCover /\ [][NextCover]_vars

NextSession ==
    \E t \in Threads :
       \/ get_session_call(t)
       \/ get_session_test(t)
       \/ get_session_create(t)
       \/ get_session_return(t)

\* calls of _get_session by the host's threads, one statement a step
SpecSession == Init /\ [][NextSession]_vars

NextParse ==
    \/ KoboMetadataImpl_parse_search_page

\* _parse_search_page on any results page
SpecParse == Init /\ [][NextParse]_vars

\* ------------------------------------------------------------------- properties
Rank(rec) == rec.source_relevance[1]

\* C1 (SpecFetch): within one _get_webpage call, while every response so far was a
\* challenge page the loop goes on; the first response that is none ends the call with
\* that response's page and the classification of its final address; a page that is
\* returned is never a challenge page; and no call makes more than 15 requests.
C1_FetchReturnsFirstCleanResponse ==
    /\ requests <= MaxAttempts
    /\ (op = "get_webpage" /\ pc = "get" /\ resp # None)
          => (resp[1].kind = "ok" /\ resp[1].page.markers # {} /\ requests = attempts)
    /\ (op = "get_webpage" /\ pc = "ret" /\ resp # None /\ resp[1].kind = "ok"
        /\ resp[1].page.markers = {})
          => /\ requests = attempts + 1
             /\ page = Some(resp[1].page)
             /\ is_search = Contains(resp[1].url, SearchMarker)
    /\ (op = "get_webpage" /\ page # None) => page[1].markers = {}

\* 14 challenge pages, then a results page: the 15th response is returned
C1_Witness ==
    /\ op = "get_webpage" /\ pc = "ret"
    /\ requests = MaxAttempts /\ attempts = MaxAttempts - 1
    /\ page # None /\ is_search

\* C2 as claimed (Spec): when a fetch of identify or get_cover_url has given up after 15
\* challenge pages, the operation is aborted with an error: once the caller has the
\* result of that fetch the operation has ended by raising, and goes on to no further
\* search or detail fetch nor to an empty or partial result.
C2_ExhaustedFetchAbortsOperation ==
    (op \in ImplOps /\ "giving_up" \in log /\ fetch_pc = "none")
       => (pc = "done" /\ raised # "")

\* C3 as claimed (Spec): when identify of KoboMetadataImpl has stopped at a candidate
\* whose fetch gave no page or a results page, or whose fetch or parse raised, it has
\* not raised and the records accepted from the earlier candidates are on the sink.
C3_CandidateFailureKeepsEarlierRecords ==
    (op = "identify" /\ pc = "done" /\ pos >= 1
     /\ (page = None \/ is_search \/ "lookup_exception" \in log))
       => (raised = "" /\ result_queue = results)

\* where a candidate address comes from: 0 the identifier, 1 the ISBN search, 2 the
\* free-text search
Origin(u) ==
    IF identifiers.kobo # None /\ u = get_kobo_url(identifiers.kobo[1]) THEN 0
    ELSE IF check_isbn(identifiers.isbn) # None /\ Contains(u, check_isbn(identifiers.isbn)[1])
    THEN 1
    ELSE IF Contains(u, query) \/ Contains(u, quote_plus(query)) THEN 2
    ELSE 3

\* C4 (Spec): the candidate list of identify holds the identifier address first when
\* one is given, then the addresses of the ISBN search (none without a valid ISBN),
\* then those of the free-text search; and the records on the sink are in the order of
\* their candidates.
C4_CandidatesInPriorityOrder ==
    op = "identify" =>
       /\ \A i \in DOMAIN urls : Origin(urls[i]) \in {0, 1, 2}
       /\ \A i, j \in DOMAIN urls : i < j => Origin(urls[i]) <= Origin(urls[j])
       /\ identifiers.kobo # None => (urls # <<>> /\ Origin(urls[1]) = 0)
       /\ \A i \in DOMAIN urls : (i > 1 => Origin(urls[i]) # 0)
       /\ pc \in {"fetch_metadata", "done"} /\ raised # "AssertionError"
             => Len(urls) = Len(SelectSeq(urls, LAMBDA u : Origin(u) = 0))
                            + Len(SelectSeq(urls, LAMBDA u : Origin(u) = 1))
                            + Len(SelectSeq(urls, LAMBDA u : Origin(u) = 2))
       /\ \A i, j \in DOMAIN result_queue :
             i < j => Rank(result_queue[i]) < Rank(result_queue[j])
       /\ \A i \in DOMAIN result_queue : Rank(result_queue[i]) + 1 \in DOMAIN urls

\* identify has delivered three records from candidates of all three origins
C4_Witness ==
    /\ op = "identify" /\ pc = "done" /\ Len(result_queue) >= 3
    /\ {Origin(urls[i]) : i \in DOMAIN urls} = {0, 1, 2}

\* C5 as claimed (Spec): the i-th record on the sink has rank i - 1.
C5_RankIsEmissionPosition ==
    \A i \in DOMAIN result_queue : result_queue[i].source_relevance = Some(i - 1)

\* the records identify has collected so far
Collected == IF op = "identify" THEN results ELSE result_queue

\* C5 as amended (Spec): the record a candidate yields gets the zero-based position of
\* that candidate in the candidate list, whether or not earlier candidates yielded a
\* record; so ranks strictly increase along the sink and skip a number for every
\* earlier candidate without a record.
C5_RankIsCandidatePosition ==
    [][ /\ (pc \in {"fetch_metadata", "lookup"} /\ Len(Collected') = Len(Collected) + 1)
            => Collected'[Len(Collected')].source_relevance = Some(pos - 1)
        /\ \A i, j \in DOMAIN result_queue' :
              i < j => Rank(result_queue'[i]) < Rank(result_queue'[j])
        /\ \A i \in DOMAIN result_queue' : Rank(result_queue'[i]) >= i - 1
      ]_vars

\* the first candidate was rejected by the title blacklist, the first record has rank 1
C5_Witness ==
    /\ op = "identify" /\ pc = "done" /\ prefs.title_blacklist # <<>>
    /\ result_queue # <<>> /\ result_queue[1].source_relevance = Some(1)

\* C6 as claimed (Spec): a candidate's page that has a title is parsed without an error.
C6_ParseFailsOnlyWithoutTitle ==
    (op = "identify" /\ pos >= 1 /\ page # None /\ ~is_search
     /\ page[1].title_elements # <<>>)
       => ("lookup_exception" \notin log /\ raised = "")

\* the words of a title: the runs between spaces of the lowercased title without
\* punctuation
TitleWords(title) ==
    LET t == Lower(RemoveChars(title, Punctuation))
    IN  {SubSeq(t, i, j) : <<i, j>> \in
           {w \in (1..Len(t)) \X (1..Len(t)) :
               /\ w[1] <= w[2]
               /\ \A k \in w[1]..w[2] : t[k] # " "
               /\ (w[1] = 1 \/ t[w[1] - 1] = " ")
               /\ (w[2] = Len(t) \/ t[w[2] + 1] = " ")}}

\* C7 (Spec): no record on the sink has a title word in the title blacklist or a tag in
\* the tag blacklist; and with both blacklists empty every candidate parsed by identify
\* of KoboMetadataImpl has yielded a record.
C7_NoBlacklistedRecordOnSink ==
    /\ \A i \in DOMAIN result_queue :
          /\ TitleWords(result_queue[i].title) \cap BlacklistEntries(prefs.title_blacklist) = {}
          /\ {Lower(t) : t \in result_queue[i].tags}
                \cap BlacklistEntries(prefs.tag_blacklist) = {}
    /\ (op = "identify" /\ prefs.title_blacklist = <<>> /\ prefs.tag_blacklist = <<>>)
          => Len(results) = index

\* a candidate was rejected by the title blacklist and another one delivered
C7_Witness ==
    /\ op = "identify" /\ pc = "done" /\ prefs.title_blacklist # <<>>
    /\ result_queue # <<>> /\ index > Len(results)

\* C8 as claimed (Spec): a query never requests a results page at or beyond the ceiling,
\* so it ends after a bounded number of requests.
C8_PaginationBounded ==
    pc \in {"query_first", "query_next"} => page_num < max_page_num

\* C9 as claimed (Spec): in _perform_query of KoboMetadataImpl, with k the number of
\* the results page processed last, page k + 1 is requested exactly when fewer than
\* max_matches links are collected and k is below the ceiling.
C9_NextPageWhileBelowCeiling ==
    op \in ImplOps =>
       /\ pc = "query_next"
             => (Len(query_results) < max_matches /\ page_num - 1 < max_page_num)
       /\ (pc = "query_return" /\ page # None /\ is_search)
             => ~(Len(query_results) < max_matches /\ page_num - 1 < max_page_num)

\* C9 as amended (Spec): page k + 1 is requested exactly when fewer than max_matches
\* links are collected and k + 1 is below the ceiling: pages 1 to 3 at most.
C9_NextPageWhileNextBelowCeiling ==
    op \in ImplOps =>
       /\ pc = "query_next"
             => (Len(query_results) < max_matches /\ page_num < max_page_num)
       /\ (pc = "query_return" /\ page # None /\ is_search)
             => ~(Len(query_results) < max_matches /\ page_num < max_page_num)
       /\ pc \in {"query_first", "query_next"} => page_num < max_page_num

\* the query returns after page 3 with fewer links than asked for
C9_Witness ==
    /\ op = "identify" /\ pc = "query_return" /\ page # None /\ is_search
    /\ page_num = max_page_num /\ Len(query_results) < max_matches

\* C10 (Spec): when the first page of a query is classified as a product page, the query
\* returns the one address it asked for and requests no further page.  (Until the call
\* for a further page has returned, page is the page the query worked on last.)
C10_RedirectYieldsSingleUrl ==
    (op \in ImplOps /\ pc \in {"query_next", "query_return"} /\ fetch_pc # "ret"
     /\ page # None /\ ~is_search)
       => /\ pc = "query_return"
          /\ page_num = 1
          /\ query_ret = <<get_search_url(query_arg, 1, prefs)>>

\* the redirect happens with more than one match asked for
C10_Witness ==
    /\ op = "identify" /\ pc = "query_return" /\ page # None /\ ~is_search
    /\ prefs.num_matches > 1 /\ Len(query_ret) = 1

\* the first n elements of s, or all of s when it has fewer
FirstN(s, n) == [i \in 1..(IF Len(s) < n THEN Len(s) ELSE n) |-> s[i]]

\* C11 (Spec): in _perform_query of KoboMetadataImpl every results page that is fetched
\* and classified as a search page adds its extracted links, in their order and with
\* repetitions, to the end of the links collected so far, and when the query returns
\* after a search page it returns the first max_matches of them; no query returns more
\* than max_matches addresses.
C11_ReturnsFirstMaxMatchesLinks ==
    [][ /\ (op \in ImplOps /\ pc \in {"query_first", "query_next"}
            /\ fetch_pc = "ret"
            /\ page' # None /\ is_search')
              => query_results' = query_results \o parse_search_page(page'[1])
        /\ (op \in ImplOps /\ pc \in {"query_first", "query_next"}
            /\ fetch_pc = "ret"
            /\ page' # None /\ is_search' /\ pc' = "query_return")
              => query_ret' = FirstN(query_results', max_matches)
        /\ op \in ImplOps => Len(query_ret') <= max_matches
      ]_vars

\* a query returns after its second page: one link of page 1, two of page 2, of which
\* the last is cut off
C11_Witness ==
    /\ op = "identify" /\ pc = "query_return" /\ page # None /\ is_search
    /\ page_num = 3 /\ Len(query_results) = 3 /\ max_matches = 2
    /\ query_ret = <<query_results[1], query_results[2]>>

\* C12 (SpecCover): download_cover of the plugin class puts at most one item on the
\* host's sink, and only the bytes read from the cover address it obtained, which is an
\* address held by the cache; when it ends without a cover address, or the read of the
\* cover raised, or an error left it, the sink is empty and the failure was logged or
\* raised.
C12_CoverSinkOnlyAfterSuccessfulFetch ==
    op = "download_cover" =>
       /\ Len(result_queue) <= 1
       /\ result_queue # <<>>
             => /\ pc = "done" /\ dc_cover_url # None /\ "cover_exception" \notin log
                /\ result_queue = << <<"self", CoverBytes(dc_cover_url[1])>> >>
                /\ \E p \in cache : p[2] = dc_cover_url[1]
       /\ (pc = "done" /\ (dc_cover_url = None \/ "cover_exception" \in log \/ raised # ""))
             => /\ result_queue = <<>>
                /\ \/ raised # ""
                   \/ log \cap {"could_not_identify", "cover_exception"} # {}

\* identify gave a record whose identifier has no cached address: nothing is put
C12_Witness ==
    /\ op = "download_cover" /\ pc = "done" /\ metadata # None /\ dc_cover_url = None
    /\ "cover_exception" \in log /\ result_queue = <<>>

\* the cache holds an address for the identifiers' ISBN
IsbnCached(c, ids) == ids.isbn # None /\ \E p \in c : p[1] = ids.isbn

\* C13 (SpecCover): when download_cover is called while the cache holds an address for
\* the ISBN of the identifiers, it goes straight to reading that address, otherwise it
\* runs identify; and as long as identify was not run no search page and no product page
\* has been requested.
C13_CachedCoverSkipsIdentify ==
    [][ /\ (pc = "idle" /\ op' = "download_cover")
            => IF IsbnCached(cache, identifiers')
               THEN /\ pc' = "cover_fetch"
                    /\ \E p \in cache : p[1] = identifiers'.isbn /\ dc_cover_url' = Some(p[2])
               ELSE pc' = "query_first" /\ page_num' = 1
        /\ (op' = "download_cover" /\ page_num' = 0)
            => /\ pc' \in {"cover_fetch", "done"}
               /\ urls' = <<>> /\ page' = None /\ pos' = 0 /\ cache' = cache
               /\ IsbnCached(cache', identifiers')
        /\ (op = "download_cover" /\ pc = "cover_fetch" /\ page_num = 0)
            => (pc' = "done" /\ page_num' = 0)
      ]_vars

\* the cover was read from the cached address without identify
C13_Witness ==
    /\ op = "download_cover" /\ pc = "done" /\ page_num = 0 /\ urls = <<>>
    /\ result_queue # <<>>

\* C14 as claimed (Spec): when the page of a candidate of identify other than the first
\* has no title, identify of KoboMetadataImpl raises nothing and ends only when that
\* candidate was the last one.
C14_MalformedPageSkipsOnlyThatCandidate ==
    (op = "identify" /\ pos >= 2 /\ page # None /\ ~is_search
     /\ page[1].title_elements = <<>>)
       => (raised = "" /\ (pc = "done" => pos = Len(urls)))

\* C15 (Spec): when a results page after the first is fetched and not classified as a
\* search page, _perform_query of KoboMetadataImpl returns nothing: the entry point ends
\* with an AssertionError, with no candidate added, nothing put on the sink and no value
\* returned.
C15_LaterDetailPageAborts ==
    [][ (op \in ImplOps /\ pc = "query_next" /\ fetch_pc = "ret"
         /\ page # None /\ ~is_search)
          => /\ pc' = "done" /\ raised' = "AssertionError"
             /\ UNCHANGED <<query_ret, urls, results, result_queue, retval>>
             /\ result_queue' = <<>> /\ retval' = None
      ]_vars

\* the second results page came back as a product page after links had been collected
C15_Witness ==
    /\ op = "identify" /\ pc = "done" /\ raised = "AssertionError"
    /\ page # None /\ ~is_search /\ page_num = 2 /\ query_results # <<>>

\* C16 as claimed (SpecSession): the instance has one session for good: every session
\* _get_session has returned to a thread is the session the instance holds, whatever the
\* interleaving of the threads.
C16_OneSessionPerInstance ==
    \A t \in Threads : thread_session[t] # None => thread_session[t] = session

\* C17 (SpecFetch): a request of _get_webpage that raises ends the call at once, with
\* no page and the exception logged, and is not counted as an attempt; a call sends a
\* further request only after a response that was a challenge page.
C17_TransportFailureEndsFetch ==
    [][ op = "get_webpage" =>
          /\ (pc = "get" /\ requests' = requests + 1 /\ resp'[1].kind = "exception")
                => /\ pc' = "ret" /\ page' = None /\ ~is_search'
                   /\ "exception" \in log' /\ attempts' = attempts
          /\ (pc = "get" /\ requests' = requests + 1 /\ requests >= 1)
                => (resp[1].kind = "ok" /\ resp[1].page.markers # {})
          /\ (pc = "ret" => requests' = requests)
      ]_vars

\* the request after a challenge page raised: two requests, no third
C17_Witness ==
    /\ op = "get_webpage" /\ pc = "ret" /\ requests = 2 /\ attempts = 1
    /\ resp[1].kind = "exception" /\ page = None /\ "exception" \in log

\* the address has the search path in it
HasSearchPath(u) == \E i \in DOMAIN u : u[i] = "/search?"

\* C19 (SpecFetch): the page _get_webpage returns is classified as a search page exactly
\* when the address of the response has the search path in it, whatever address was
\* requested and whatever the page holds.
C19_ClassifiedByFinalUrl ==
    (op = "get_webpage" /\ pc = "ret" /\ page # None)
       => (is_search <=> HasSearchPath(resp[1].url))

\* a search address was requested, the response came from a product address with a
\* results page in it: not a search page
C19_Witness ==
    /\ op = "get_webpage" /\ pc = "ret" /\ page # None
    /\ HasSearchPath(url) /\ ~HasSearchPath(resp[1].url) /\ page[1].results_display
    /\ ~is_search

\* C18 (Spec): identify works through its candidates one at a time and in list order.
\* While searches run no candidate has been fetched; once the loop of _fetch_metadata is
\* entered the list is fixed and no search page is fetched any more; each step fetches
\* the candidate at the loop's position, and the loop moves to the next position, by
\* one, only after that candidate's page has been fetched and parsed: while the
\* _get_webpage call for it is entered or under way the position stays.
C18_CandidatesFetchedInOrder ==
    [][ (op = "identify" /\ op' = "identify") =>
          /\ (pc \in {"query_first", "query_next", "query_return"})
                => (pos = 0 /\ results = <<>>)
          /\ (pc = "fetch_metadata")
                => (pc' \in {"fetch_metadata", "done"} /\ urls' = urls /\ url = urls[pos])
          /\ (pc = "fetch_metadata" /\ fetch_pc # "ret")
                => (pc' = pc /\ pos' = pos /\ url' = url /\ results' = results
                    /\ index' = index)
          /\ (pc = "fetch_metadata" /\ pc' = "fetch_metadata" /\ fetch_pc = "ret")
                => /\ pos' = pos + 1 /\ url' = urls[pos']
                   /\ page' # None /\ ~is_search'
                   /\ metadata' = parse_book_page(page'[1], prefs, cache).metadata
                   /\ index' = pos
      ]_vars

\* two candidates have been fetched and parsed, the third is the next to be fetched
C18_Witness ==
    /\ op = "identify" /\ pc = "fetch_metadata" /\ pos = 3 /\ index = 2
    /\ Len(urls) >= 3 /\ url = urls[3] /\ urls[1] # urls[2] /\ urls[2] # urls[3]

\* C20 (SpecParse): on a page with the widget of the newer markup _parse_search_page
\* returns the title links at positions 1, 3, 5, ... in document order and nothing else;
\* on a page without it that has links of the older markup it returns all of them in
\* document order; on a page with neither it returns the empty list; it never raises.
C20_SearchPageVariants ==
    (op = "parse_search_page" /\ pc = "ret") =>
        LET pg == page[1]
            tl == pg.title_links
        IN  /\ raised = ""
            /\ pg.search_widget =>
                   /\ 2 * Len(query_ret) \in {Len(tl), Len(tl) + 1}
                   /\ \A k \in 1..Len(tl) : k % 2 = 1 => query_ret[(k + 1) \div 2] = tl[k]
            /\ (~pg.search_widget /\ pg.h2_links # <<>>) => query_ret = pg.h2_links
            /\ (~pg.search_widget /\ pg.h2_links = <<>>) => query_ret = <<>>

\* a page of the newer markup with three title links, the second unlike the others, and
\* links of the older markup as well: the first and the third are returned
C20_Witness ==
    /\ op = "parse_search_page" /\ pc = "ret" /\ page[1].search_widget
    /\ Len(page[1].title_links) = 3 /\ page[1].title_links[2] # page[1].title_links[1]
    /\ page[1].h2_links # <<>>
    /\ query_ret = <<page[1].title_links[1], page[1].title_links[3]>>

\* C21 (Spec): get_cover_url starts the free-text search only without a valid ISBN or
\* after an ISBN search that returned no candidate; it fetches one detail page at most,
\* that of the first candidate; and it returns no cover address when it has no candidate
\* or when the fetch of that page gave no page or a page classified as a search page.
C21_CoverSearchOnlyWithoutIsbnMatch ==
    [][ (op' = "get_cover_url") =>
          /\ (op = "none" /\ stage' = "text") => check_isbn(identifiers'.isbn) = None
          /\ (op = "get_cover_url" /\ stage = "isbn" /\ stage' = "text")
                => (pc = "query_return" /\ query_ret = <<>> /\ urls' = <<>>)
          /\ (op = "get_cover_url" /\ pc = "cover_page")
                => (url = urls[1] /\ urls' = urls
                    /\ pc' = IF fetch_pc = "ret" THEN "done" ELSE "cover_page")
          /\ (op = "get_cover_url" /\ pc # "done" /\ pc' = "done" /\ raised' = ""
                 /\ (urls' = <<>> \/ page' = None \/ is_search'))
                => retval' \in {None, Some(<<>>)}
      ]_vars

\* a valid ISBN whose search returned nothing, then a free-text search with a candidate
\* whose page came back classified as a search page: the empty address is returned
C21_Witness ==
    /\ op = "get_cover_url" /\ pc = "done" /\ raised = ""
    /\ check_isbn(identifiers.isbn) # None /\ stage = "text"
    /\ urls # <<>> /\ url = urls[1] /\ page # None /\ is_search
    /\ retval = Some(<<>>)

\* C22 (Spec): when the fetch of a results page after the first returns no page, because
\* the request raised or the challenge retries ran out, _perform_query of
\* KoboMetadataImpl raises an AssertionError and returns nothing, the links of the
\* earlier pages included; identify ends there with an empty result sink.
C22_LaterPageFetchFailureAborts ==
    [][ (op = "identify" /\ pc = "query_next" /\ fetch_pc = "ret" /\ page = None)
          => /\ log \cap {"exception", "giving_up"} # {}
             /\ pc' = "done" /\ raised' = "AssertionError"
             /\ query_ret' = <<>> /\ urls' = urls
             /\ query_results' = query_results
             /\ result_queue' = <<>>
      ]_vars

\* links had been collected from the first page when the fetch of the second gave up
C22_Witness ==
    /\ op = "identify" /\ pc = "done" /\ raised = "AssertionError"
    /\ page = None /\ "giving_up" \in log /\ page_num = 2
    /\ query_results # <<>> /\ query_ret = <<>> /\ result_queue = <<>>

\* the identifier of the record parsed from the page pg by the running entry point
RecordIsbn(pg) ==
    parse_fields(pg, IF op = "identify" THEN {<<"ISBN:">>, <<"Book ID:">>}
                     ELSE {<<"ISBN:">>}).md.isbn

\* C23 (Spec): whenever identify, of either class, has parsed a product page that has a
\* cover image, the cache maps the record's identifier to the cover address derived from
\* the image, whether the blacklist then let the record through or rejected it.
C23_CoverCachedBeforeBlacklist ==
    [][ (/\ op \in {"identify", "plugin_identify"} /\ pc \in {"fetch_metadata", "lookup"}
         /\ fetch_pc = (IF op = "identify" THEN "ret" ELSE "none")
         /\ page' # None /\ ~is_search' /\ "lookup_exception" \notin log'
         /\ page'[1].title_elements # <<>> /\ page'[1].cover_elements # <<>>)
          => cached_identifier_to_cover_url(cache', RecordIsbn(page'[1]))
                = Some(derive_cover_url(page'[1].cover_elements[1], prefs))
      ]_vars

\* the only record was rejected for its title: nothing is on the sink and the cache has
\* the cover address of the rejected record
C23_Witness ==
    /\ op = "identify" /\ pc = "done" /\ raised = "" /\ prefs.title_blacklist # <<>>
    /\ page # None /\ ~is_search /\ page[1].cover_elements # <<>>
    /\ metadata = None /\ result_queue = <<>> /\ pos = 1
    /\ cache = {<<RecordIsbn(page[1]), derive_cover_url(page[1].cover_elements[1], prefs)>>}

====
